---- MODULE Spec2Model ----
(***************************************************************************)
(* The title indexer of web-index: main.py loads a corpus, builds a        *)
(* non-positional or a positional inverted index over the documents'       *)
(* titles, computes the corpus statistics and writes both as JSON.         *)
(*                                                                         *)
(* Text is a sequence of one-character strings.  Python dictionaries are   *)
(* sequences of [key, val] entries in insertion order.  Document           *)
(* identifiers are zero-based, TLA+ sequences are one-based.               *)
(***************************************************************************)
EXTENDS Integers, Sequences, FiniteSets, TLC

VARIABLES
    documents,   \* main: documents = get_docs_from_json(file_path)
    pos_idx,     \* main: args.pos_idx
    pc,          \* main: the next statement to run
    builds,      \* number of build_index calls made on index_builder
    index,       \* index_builder.index
    statistics,  \* index_builder.statistics
    files,       \* the JSON documents written so far, by file name
    error        \* the exception that left main, "none" while it runs

vars == <<documents, pos_idx, pc, builds, index, statistics, files, error>>

-----------------------------------------------------------------------------
(* Bounds of the model.                                                    *)

\* documents in a corpus
MaxDocs == 2
\* words in a title
MaxWords == 2
\* build_index calls on one builder
MaxBuilds == 2
\* documents in a corpus of the statistics specification
MaxStatDocs == 11

\* bits in the significand of a Python float (IEEE 754 binary64)
Precision == 53

-----------------------------------------------------------------------------
(* Text and tokenization.                                                  *)

\* the characters of the model: two letters, one of them in both cases, and
\* a character that is not a word character
WordChars == {"t", "T", "s"}
Space == " "

\* str.lower() on one character
lower(c) == IF c = "T" THEN "t" ELSE c

\* the regular expression class \w
IsWordChar(c) == c \in WordChars

\* re.findall(r'\w+', text): the maximal runs of word characters, left to
\* right; cur is the run being read
RECURSIVE findall(_, _, _)
findall(text, i, cur) ==
    IF i > Len(text)
    THEN IF cur = <<>> THEN <<>> ELSE <<cur>>
    ELSE IF IsWordChar(text[i])
         THEN findall(text, i + 1, Append(cur, text[i]))
         ELSE (IF cur = <<>> THEN <<>> ELSE <<cur>>) \o findall(text, i + 1, <<>>)

\* tokenize(text) of both builders
tokenize(text) == findall([i \in 1..Len(text) |-> lower(text[i])], 1, <<>>)

-----------------------------------------------------------------------------
(* The corpora main may load.                                              *)

Words == {<<"t">>, <<"T", "s">>}

RECURSIVE JoinWords(_)
JoinWords(ws) ==
    IF ws = <<>> THEN <<>>
    ELSE IF Len(ws) = 1 THEN ws[1]
    ELSE ws[1] \o <<Space>> \o JoinWords(Tail(ws))

\* the titles of up to n words
WordTitles(words, n) == {JoinWords(ws) : ws \in UNION {[1..k -> words] : k \in 0..n}}

\* titles of the two words, which stem alike, and one of a word with a stem
\* of its own
Titles == WordTitles(Words, MaxWords) \cup {<<"s", "s">>}

UrlText == <<"t">>
ContentText == <<"s", "s", Space, "T">>

\* a document is a function from field names to texts: with a title and a
\* url, with a further field, or without a title
Docs ==
    {[title |-> t, url |-> UrlText] : t \in Titles}
    \cup {[title |-> t, url |-> UrlText, content |-> ContentText] :
             t \in {x \in Titles : Len(tokenize(x)) <= 1}}
    \cup {[url |-> UrlText], [url |-> UrlText, content |-> ContentText]}

Corpora == UNION {[1..n -> Docs] : n \in 0..MaxDocs}

\* the order in which doc.items() yields the fields of a document
FieldOrder == <<"title", "url", "content">>

-----------------------------------------------------------------------------
(* Python dictionaries, in insertion order.                                *)

DictHas(d, k) == \E i \in 1..Len(d) : d[i].key = k

DictGet(d, k) == d[CHOOSE i \in 1..Len(d) : d[i].key = k].val

\* d[k] of a defaultdict
DictGetDefault(d, k, default) == IF DictHas(d, k) THEN DictGet(d, k) ELSE default

\* d[k] = v: an existing key keeps its place, a new key goes last
DictSet(d, k, v) ==
    IF DictHas(d, k)
    THEN [i \in 1..Len(d) |-> IF d[i].key = k THEN [key |-> k, val |-> v] ELSE d[i]]
    ELSE Append(d, [key |-> k, val |-> v])

DictKeys(d) == {d[i].key : i \in 1..Len(d)}

-----------------------------------------------------------------------------
(* NonPositionalIndex.build_index                                          *)

\* a builder that lists a document once per token, not once per occurrence
NonPositionalIndex_append_once(ix, token, idx) ==
    LET postings == DictGetDefault(ix, token, <<>>)
    IN  IF postings # <<>> /\ postings[Len(postings)] = idx THEN ix
        ELSE DictSet(ix, token, Append(postings, idx))

\* self.index[token].append(idx)
NonPositionalIndex_append(ix, token, idx) ==
    DictSet(ix, token, Append(DictGetDefault(ix, token, <<>>), idx))

\* for token in title_tokens: self.index[token].append(idx), after the
\* first k tokens
RECURSIVE NonPositionalIndex_add_tokens(_, _, _, _)
NonPositionalIndex_add_tokens(ix, tokens, idx, k) ==
    IF k = 0 THEN ix
    ELSE NonPositionalIndex_append(
             NonPositionalIndex_add_tokens(ix, tokens, idx, k - 1), tokens[k], idx)

\* for idx, doc in enumerate(documents), after the first n documents;
\* doc['title'] of a document without a title raises KeyError, which ends
\* the loop
RECURSIVE NonPositionalIndex_build_index(_, _, _)
NonPositionalIndex_build_index(ix, docs, n) ==
    IF n = 0 THEN [index |-> ix, error |-> "none"]
    ELSE LET before == NonPositionalIndex_build_index(ix, docs, n - 1)
         IN  IF before.error # "none" THEN before
             ELSE IF "title" \notin DOMAIN docs[n]
             THEN [index |-> before.index, error |-> "KeyError"]
             ELSE LET title_tokens == tokenize(docs[n].title)
                  IN  [index |-> NonPositionalIndex_add_tokens(
                                     before.index, title_tokens, n - 1, Len(title_tokens)),
                       error |-> "none"]

-----------------------------------------------------------------------------
(* PositionalIndex.build_index                                             *)

\* a builder that counts positions from 1
PositionalIndex_append_from_one(ix, token, idx, position) ==
    LET byDoc == DictGetDefault(ix, token, <<>>)
    IN  DictSet(ix, token,
                DictSet(byDoc, idx, Append(DictGetDefault(byDoc, idx, <<>>), position + 1)))

\* if token not in self.index: ...; if idx not in self.index[token]: ...;
\* self.index[token][idx].append(position)
PositionalIndex_append(ix, token, idx, position) ==
    LET byDoc == DictGetDefault(ix, token, <<>>)
    IN  DictSet(ix, token,
                DictSet(byDoc, idx, Append(DictGetDefault(byDoc, idx, <<>>), position)))

\* for position, token in enumerate(title_tokens), after the first k tokens
RECURSIVE PositionalIndex_add_tokens(_, _, _, _)
PositionalIndex_add_tokens(ix, tokens, idx, k) ==
    IF k = 0 THEN ix
    ELSE PositionalIndex_append(
             PositionalIndex_add_tokens(ix, tokens, idx, k - 1), tokens[k], idx, k - 1)

\* for idx, doc in enumerate(documents), after the first n documents
RECURSIVE PositionalIndex_build_index(_, _, _)
PositionalIndex_build_index(ix, docs, n) ==
    IF n = 0 THEN [index |-> ix, error |-> "none"]
    ELSE LET before == PositionalIndex_build_index(ix, docs, n - 1)
         IN  IF before.error # "none" THEN before
             ELSE IF "title" \notin DOMAIN docs[n]
             THEN [index |-> before.index, error |-> "KeyError"]
             ELSE LET title_tokens == tokenize(docs[n].title)
                  IN  [index |-> PositionalIndex_add_tokens(
                                     before.index, title_tokens, n - 1, Len(title_tokens)),
                       error |-> "none"]

-----------------------------------------------------------------------------
(* Python floats: a positive float is its significand, Precision bits with *)
(* the most significant first, and the exponent of that first bit; each    *)
(* operation rounds the exact result to the nearest float, ties to even.   *)

FloatZero == [sig |-> <<>>, exp |-> 0]

\* the binary digits of a natural number, most significant first
RECURSIVE BitsOfNat(_)
BitsOfNat(n) == IF n = 0 THEN <<>> ELSE Append(BitsOfNat(n \div 2), n % 2)

\* bits + 1, with the carry out of the first bit
BitsInc(bits) ==
    LET zeros == {i \in 1..Len(bits) : bits[i] = 0}
    IN  IF zeros = {}
        THEN [bits |-> [i \in 1..Len(bits) |-> 0], carry |-> 1]
        ELSE LET j == CHOOSE i \in zeros : \A k \in zeros : k <= i
             IN  [bits |-> [i \in 1..Len(bits) |->
                               IF i < j THEN bits[i] ELSE IF i = j THEN 1 ELSE 0],
                  carry |-> 0]

\* bits - 1, for bits > 0
BitsDec(bits) ==
    LET ones == {i \in 1..Len(bits) : bits[i] = 1}
        j    == CHOOSE i \in ones : \A k \in ones : k <= i
    IN  [i \in 1..Len(bits) |-> IF i < j THEN bits[i] ELSE IF i = j THEN 0 ELSE 1]

\* the float nearest to the number whose binary digits are bits (the first
\* one is 1 and has exponent exp) followed by a non-zero tail when sticky
float_round(bits, sticky, exp) ==
    LET padded == IF Len(bits) > Precision THEN bits
                  ELSE bits \o [i \in 1..(Precision + 1 - Len(bits)) |-> 0]
        kept   == SubSeq(padded, 1, Precision)
        half   == padded[Precision + 1] = 1
        more   == sticky \/ \E i \in (Precision + 2)..Len(padded) : padded[i] = 1
        up     == half /\ (more \/ kept[Precision] = 1)
        inc    == BitsInc(kept)
    IN  IF ~up THEN [sig |-> kept, exp |-> exp]
        ELSE IF inc.carry = 1
             THEN [sig |-> <<1>> \o SubSeq(inc.bits, 2, Precision), exp |-> exp + 1]
             ELSE [sig |-> inc.bits, exp |-> exp]

\* num / den scaled by a power of two into [1, 2)
RECURSIVE float_scale(_, _, _)
float_scale(num, den, e) ==
    IF num < den THEN float_scale(2 * num, den, e - 1)
    ELSE IF num >= 2 * den THEN float_scale(num, 2 * den, e + 1)
    ELSE [num |-> num, den |-> den, exp |-> e]

\* 2^j modulo m, by squaring
RECURSIVE Pow2Mod(_, _)
Pow2Mod(j, m) ==
    IF j = 0 THEN 1 % m
    ELSE LET h == Pow2Mod(j \div 2, m)
         IN  (h * h * (IF j % 2 = 1 THEN 2 ELSE 1)) % m

\* long division of r by den, for den <= r < 2 * den: the first k binary
\* digits of the quotient and what is left.  After digit j the remainder
\* is r * 2^(j - 1) modulo den.
QuotientBits(r, den, k) ==
    LET left(j) == (r * Pow2Mod(j - 1, den)) % den
    IN  [bits |-> [j \in 1..k |->
                      IF j = 1 THEN 1 ELSE IF 2 * left(j - 1) >= den THEN 1 ELSE 0],
         rem  |-> left(k)]

\* a / b of two integers, a >= 0 and b > 0
float_div(a, b) ==
    IF a = 0 THEN FloatZero
    ELSE LET s == float_scale(a, b, 0)
             q == QuotientBits(s.num, s.den, Precision + 1)
         IN  float_round(q.bits, q.rem # 0, s.exp)

\* int converted to float
float_of_int(n) ==
    IF n = 0 THEN FloatZero
    ELSE float_round(BitsOfNat(n), FALSE, Len(BitsOfNat(n)) - 1)

\* the number with the binary digits bits, for a few digits
RECURSIVE NatOfBits(_)
NatOfBits(bits) ==
    IF bits = <<>> THEN 0
    ELSE 2 * NatOfBits(SubSeq(bits, 1, Len(bits) - 1)) + bits[Len(bits)]

\* the last width binary digits of v
LowBits(v, width) == [i \in 1..width |-> (v \div (2 ^ (width - i))) % 2]

\* the binary digits of bits * n + carry, twelve digits at a time from the
\* least significant end
RECURSIVE BitsTimes(_, _, _)
BitsTimes(bits, n, carry) ==
    IF bits = <<>> THEN BitsOfNat(carry)
    ELSE LET L == Len(bits)
             w == IF L > 12 THEN 12 ELSE L
             v == NatOfBits(SubSeq(bits, L - w + 1, L)) * n + carry
         IN  BitsTimes(SubSeq(bits, 1, L - w), n, v \div (2 ^ w)) \o LowBits(v, w)

\* x * n of a float and a non-negative integer
float_mul(x, n) ==
    IF x.sig = <<>> \/ n = 0 THEN FloatZero
    ELSE LET p == BitsTimes(x.sig, n, 0)
         IN  float_round(p, FALSE, x.exp + Len(p) - Precision)

\* the floats next to x > 0
float_succ(x) ==
    LET inc == BitsInc(x.sig)
    IN  IF inc.carry = 1
        THEN [sig |-> <<1>> \o SubSeq(inc.bits, 2, Precision), exp |-> x.exp + 1]
        ELSE [sig |-> inc.bits, exp |-> x.exp]

float_pred(x) ==
    IF \A i \in 2..Precision : x.sig[i] = 0
    THEN [sig |-> [i \in 1..Precision |-> 1], exp |-> x.exp - 1]
    ELSE [sig |-> BitsDec(x.sig), exp |-> x.exp]

-----------------------------------------------------------------------------
(* calculate_statistics, the same code in both builders                    *)

\* statistics that count every field
counted_field_any(field) == TRUE

\* if field != 'url'
counted_field(field) == field # "url"

\* for field, value in doc.items(): if field != 'url':
\*     tokens_per_field[field] += len(self.tokenize(value))
\* after the first k fields
RECURSIVE count_fields(_, _, _)
count_fields(tokens_per_field, doc, k) ==
    IF k = 0 THEN tokens_per_field
    ELSE LET before == count_fields(tokens_per_field, doc, k - 1)
             field == FieldOrder[k]
         IN  IF field \in DOMAIN doc /\ counted_field(field)
             THEN DictSet(before, field,
                          DictGetDefault(before, field, 0) + Len(tokenize(doc[field])))
             ELSE before

\* for doc in documents, after the first n documents
RECURSIVE count_tokens(_, _)
count_tokens(docs, n) ==
    IF n = 0
    THEN [total_tokens |-> 0, tokens_per_field |-> <<>>, error |-> "none"]
    ELSE LET before == count_tokens(docs, n - 1)
         IN  IF before.error # "none" THEN before
             ELSE IF "title" \notin DOMAIN docs[n]
             THEN [before EXCEPT !.error = "KeyError"]
             ELSE [total_tokens |-> before.total_tokens + Len(tokenize(docs[n].title)),
                   tokens_per_field |->
                       count_fields(before.tokens_per_field, docs[n], Len(FieldOrder)),
                   error |-> "none"]

\* statistics that divide with //
avg_tokens_floor(total_tokens, num_documents) ==
    IF num_documents = 0
    THEN [value |-> FloatZero, error |-> "ZeroDivisionError"]
    ELSE [value |-> float_of_int(total_tokens \div num_documents), error |-> "none"]

\* avg_tokens_per_doc = total_tokens / num_documents
avg_tokens(total_tokens, num_documents) ==
    IF num_documents = 0
    THEN [value |-> FloatZero, error |-> "ZeroDivisionError"]
    ELSE [value |-> float_div(total_tokens, num_documents), error |-> "none"]

\* calculate_statistics(documents) on a builder whose statistics are old:
\* self.statistics is assigned last, so an exception leaves it as it was
calculate_statistics_of(old, docs) ==
    LET num_documents == Len(docs)
        counted == count_tokens(docs, num_documents)
        avg == avg_tokens(counted.total_tokens, num_documents)
    IN  IF counted.error # "none" THEN [statistics |-> old, error |-> counted.error]
        ELSE IF avg.error # "none" THEN [statistics |-> old, error |-> avg.error]
        ELSE [statistics |->
                  << [key |-> "num_documents", val |-> num_documents],
                     [key |-> "total_tokens", val |-> counted.total_tokens],
                     [key |-> "tokens_per_field", val |-> counted.tokens_per_field],
                     [key |-> "avg_tokens_per_doc", val |-> avg.value] >>,
              error |-> "none"]

-----------------------------------------------------------------------------
(* stem_index                                                              *)

\* SnowballStemmer("french").stem(term) on words without a vowel, where no
\* suffix rule applies but the last: a final s is deleted unless the letter
\* before it is one of a, i, o, u, e-grave or s
stem(term) ==
    LET n == Len(term)
    IN  IF n >= 2 /\ term[n] = "s" /\ term[n - 1] \notin {"a", "i", "o", "u", "s"}
        THEN SubSeq(term, 1, n - 1)
        ELSE term

\* a derivation that merges the postings of the terms of one stem
stem_store_merge(stemmed_index, term, postings) ==
    DictSet(stemmed_index, stem(term),
            DictGetDefault(stemmed_index, stem(term), <<>>) \o postings)

\* stemmed_index[self.stemmer.stem(term)] = postings
stem_store(stemmed_index, term, postings) ==
    DictSet(stemmed_index, stem(term), postings)

\* for term, postings in self.index.items(): ..., after the first n terms
RECURSIVE stem_terms(_, _)
stem_terms(ix, n) ==
    IF n = 0 THEN <<>>
    ELSE stem_store(stem_terms(ix, n - 1), ix[n].key, ix[n].val)

-----------------------------------------------------------------------------
(* Python values and JSON documents.  A Python value is tagged with its    *)
(* type; a JSON document is the tree json.dump writes, its object keys     *)
(* strings.  The names of fields and statistics are kept as whole strings. *)

PyInt(n) == [type |-> "int", int |-> n]
PyStr(s) == [type |-> "str", str |-> s]
PyFloat(x) == [type |-> "float", float |-> x]
PyList(xs) == [type |-> "list", elems |-> xs]
PyDict(items) == [type |-> "dict", items |-> items]

PyIntList(xs) == PyList([j \in 1..Len(xs) |-> PyInt(xs[j])])

\* the non-positional index, {token: [doc_id, ...]}, as a Python value
NonPositionalIndex_value(ix) ==
    PyDict([i \in 1..Len(ix) |->
               [key |-> PyStr(ix[i].key), val |-> PyIntList(ix[i].val)]])

\* the positional index, {token: {doc_id: [position, ...]}}
PositionalIndex_value(ix) ==
    PyDict([i \in 1..Len(ix) |->
               [key |-> PyStr(ix[i].key),
                val |-> PyDict([j \in 1..Len(ix[i].val) |->
                                   [key |-> PyInt(ix[i].val[j].key),
                                    val |-> PyIntList(ix[i].val[j].val)]])]])

\* self.statistics
statistics_value(st) ==
    PyDict([i \in 1..Len(st) |->
               [key |-> PyStr(st[i].key),
                val |-> IF st[i].key = "tokens_per_field"
                        THEN PyDict([j \in 1..Len(st[i].val) |->
                                        [key |-> PyStr(st[i].val[j].key),
                                         val |-> PyInt(st[i].val[j].val)]])
                        ELSE IF st[i].key = "avg_tokens_per_doc"
                        THEN PyFloat(st[i].val)
                        ELSE PyInt(st[i].val)]])

Digits == <<"0", "1", "2", "3", "4", "5", "6", "7", "8", "9">>

\* str(n) of a non-negative integer
RECURSIVE int_to_str(_)
int_to_str(n) ==
    IF n < 10 THEN <<Digits[n + 1]>>
    ELSE Append(int_to_str(n \div 10), Digits[(n % 10) + 1])

\* json.dump writes a dictionary key that is an integer as its decimal string
json_key(k) == IF k.type = "int" THEN int_to_str(k.int) ELSE k.str

\* json.dump(value, file)
RECURSIVE json_dump(_)
json_dump(value) ==
    IF value.type = "dict"
    THEN [type |-> "object",
          members |-> [i \in 1..Len(value.items) |->
                          [key |-> json_key(value.items[i].key),
                           val |-> json_dump(value.items[i].val)]]]
    ELSE IF value.type = "list"
    THEN [type |-> "array",
          elems |-> [i \in 1..Len(value.elems) |-> json_dump(value.elems[i])]]
    ELSE IF value.type = "str" THEN [type |-> "string", str |-> value.str]
    ELSE IF value.type = "float" THEN [type |-> "real", float |-> value.float]
    ELSE [type |-> "integer", int |-> value.int]

\* json.load(f): every object key is read as a str; a repeated key keeps
\* the last value
RECURSIVE json_load(_)
RECURSIVE json_load_members(_, _)
json_load_members(members, n) ==
    IF n = 0 THEN <<>>
    ELSE DictSet(json_load_members(members, n - 1),
                 PyStr(members[n].key), json_load(members[n].val))

json_load(doc) ==
    IF doc.type = "object" THEN PyDict(json_load_members(doc.members, Len(doc.members)))
    ELSE IF doc.type = "array"
    THEN PyList([i \in 1..Len(doc.elems) |-> json_load(doc.elems[i])])
    ELSE IF doc.type = "string" THEN PyStr(doc.str)
    ELSE IF doc.type = "real" THEN PyFloat(doc.float)
    ELSE PyInt(doc.int)

-----------------------------------------------------------------------------
(* main                                                                    *)

NonPosFile == "title.non_pos_index.json"
PosFile == "title.pos_index.json"
StemFile == "mon_stemmer.title.non_pos_index.json"
StatsFile == "metadata.json"

\* NonPositionalIndex.__init__ sets self.statistics = {}; PositionalIndex
\* has no such attribute before calculate_statistics
NoAttribute == <<[key |-> "AttributeError", val |-> 0]>>

\* index_builder = PositionalIndex() or NonPositionalIndex(), on a corpus
Fresh(corpora) ==
    /\ documents \in corpora
    /\ pos_idx \in BOOLEAN
    /\ pc = "build"
    /\ builds = 0
    /\ index = <<>>
    /\ statistics = IF pos_idx THEN NoAttribute ELSE <<>>
    /\ files = <<>>
    /\ error = "none"

Init == Fresh(Corpora)

\* a build_index that starts from an empty index
build_index_reset(positional, ix, docs) ==
    IF positional
    THEN PositionalIndex_build_index(<<>>, docs, Len(docs))
    ELSE NonPositionalIndex_build_index(<<>>, docs, Len(docs))

\* build_index(documents) of the builder whose index is ix
build_index_of(positional, ix, docs) ==
    IF positional
    THEN PositionalIndex_build_index(ix, docs, Len(docs))
    ELSE NonPositionalIndex_build_index(ix, docs, Len(docs))

\* index_builder.build_index(documents); an exception leaves main.  The
\* calls after the first are those of a caller that builds again on the
\* same builder.
build_index ==
    /\ pc = "build"
    /\ builds < MaxBuilds
    /\ LET r == build_index_of(pos_idx, index, documents)
       IN  /\ index' = r.index
           /\ error' = r.error
           /\ pc' = IF r.error = "none" THEN "build" ELSE "crashed"
    /\ builds' = builds + 1
    /\ UNCHANGED <<documents, pos_idx, statistics, files>>

\* index_builder.calculate_statistics(documents), after main's one call of
\* build_index
calculate_statistics ==
    /\ pc = "build"
    /\ builds = 1
    /\ LET r == calculate_statistics_of(statistics, documents)
       IN  /\ statistics' = r.statistics
           /\ error' = r.error
           /\ pc' = IF r.error = "none" THEN "write_index" ELSE "crashed"
    /\ UNCHANGED <<documents, pos_idx, builds, index, files>>

\* index_builder.write_index_to_file(...)
write_index_to_file ==
    /\ pc = "write_index"
    /\ files' = IF pos_idx
                THEN DictSet(files, PosFile, json_dump(PositionalIndex_value(index)))
                ELSE DictSet(files, NonPosFile, json_dump(NonPositionalIndex_value(index)))
    /\ pc' = IF pos_idx THEN "write_stats" ELSE "stem"
    /\ UNCHANGED <<documents, pos_idx, builds, index, statistics, error>>

\* index_builder.stem_index(), of the non-positional builder only
stem_index ==
    /\ pc = "stem"
    /\ files' = DictSet(files, StemFile,
                        json_dump(NonPositionalIndex_value(stem_terms(index, Len(index)))))
    /\ pc' = "write_stats"
    /\ UNCHANGED <<documents, pos_idx, builds, index, statistics, error>>

\* index_builder.write_statistics_to_file('metadata.json')
write_statistics_to_file ==
    /\ pc = "write_stats"
    /\ files' = DictSet(files, StatsFile, json_dump(statistics_value(statistics)))
    /\ pc' = "done"
    /\ UNCHANGED <<documents, pos_idx, builds, index, statistics, error>>

Next ==
    \/ build_index
    \/ calculate_statistics
    \/ write_index_to_file
    \/ stem_index
    \/ write_statistics_to_file

Spec == Init /\ [][Next]_vars

\* the statistics on larger corpora: runs of one document after runs of
\* another
RepeatDoc(d, n) == [i \in 1..n |-> d]

StatDocs == {[title |-> t, url |-> UrlText] : t \in WordTitles({<<"t">>}, MaxWords)}

StatCorpora ==
    {RepeatDoc(d1, k1) \o RepeatDoc(d2, k2) :
        d1 \in StatDocs, d2 \in StatDocs,
        k1 \in 0..MaxStatDocs, k2 \in 0..MaxStatDocs}

InitStats == Fresh({c \in StatCorpora : Len(c) <= MaxStatDocs})

SpecStats == InitStats /\ [][Next]_vars

-----------------------------------------------------------------------------
(* What the properties speak of.                                           *)

\* every document of the corpus has a title
AllTitled == \A i \in 1..Len(documents) : "title" \in DOMAIN documents[i]

\* the tokenized title of the document with identifier d
TitleTokens(d) == tokenize(documents[d + 1].title)

DocIds == 0..(Len(documents) - 1)

\* the number of places of a sequence that hold x
Count(x, xs) == Cardinality({k \in 1..Len(xs) : xs[k] = x})

NonDecreasing(xs) == \A k \in 1..(Len(xs) - 1) : xs[k] <= xs[k + 1]

StrictlyIncreasing(xs) == \A k \in 1..(Len(xs) - 1) : xs[k] < xs[k + 1]

\* no key is held twice
KeysUnique(d) == \A i, j \in 1..Len(d) : d[i].key = d[j].key => i = j

\* the tokens that occur in some title
CorpusTokens == UNION {{TitleTokens(d)[p] : p \in 1..Len(TitleTokens(d))} : d \in DocIds}

\* main has run calculate_statistics to its end
StatisticsAssigned == pc \in {"write_index", "stem", "write_stats", "done"}

-----------------------------------------------------------------------------
(* C1: built once on a fresh non-positional builder from a corpus whose    *)
(* documents all have a title, build_index raises no KeyError and the      *)
(* index holds exactly the tokens that occur in a title, each once as a key; the *)
(* postings of a token hold every document identifier as often as the      *)
(* token occurs in that document's tokenized title, in non-decreasing      *)
(* order.  The empty corpus gives the empty index.                         *)
C1_NonPositionalPostings ==
    (~pos_idx /\ builds = 1 /\ AllTitled) =>
        /\ error # "KeyError"
        /\ KeysUnique(index)
        /\ DictKeys(index) = CorpusTokens
        /\ documents = <<>> => index = <<>>
        /\ \A i \in 1..Len(index) :
              /\ \A k \in 1..Len(index[i].val) : index[i].val[k] \in DocIds
              /\ \A d \in DocIds :
                    Count(d, index[i].val) = Count(index[i].key, TitleTokens(d))
              /\ NonDecreasing(index[i].val)

\* a token that occurs twice in document 0 and once in document 1
C1_Witness ==
    /\ ~pos_idx /\ builds = 1 /\ AllTitled /\ error = "none"
    /\ \E i \in 1..Len(index) : index[i].val = <<0, 0, 1>>

\* the empty corpus has been built without error
C1_WitnessEmpty ==
    ~pos_idx /\ builds = 1 /\ documents = <<>> /\ index = <<>> /\ error = "none"

-----------------------------------------------------------------------------
(* C2: built once on a fresh positional builder from a corpus whose        *)
(* documents all have a title, build_index raises no KeyError and every (token, document) pair of the index   *)
(* is held once and maps to the non-empty, strictly increasing list of all *)
(* zero-based positions at which the token stands in that document's       *)
(* tokenized title.                                                        *)
C2_PositionalPositions ==
    (pos_idx /\ builds = 1 /\ AllTitled) =>
        /\ error # "KeyError"
        /\ KeysUnique(index)
        /\ \A i \in 1..Len(index) :
              /\ KeysUnique(index[i].val)
              /\ \A j \in 1..Len(index[i].val) :
                    LET d == index[i].val[j].key
                        positions == index[i].val[j].val
                    IN  /\ d \in DocIds
                        /\ positions # <<>>
                        /\ StrictlyIncreasing(positions)
                        /\ {positions[k] : k \in 1..Len(positions)}
                             = {q \in 0..(Len(TitleTokens(d)) - 1) :
                                   TitleTokens(d)[q + 1] = index[i].key}

\* document 1 holds a token at positions 0 and 1, and document 0 holds it too
C2_Witness ==
    /\ pos_idx /\ builds = 1 /\ AllTitled /\ error = "none"
    /\ \E i \in 1..Len(index) :
          /\ Len(index[i].val) = 2
          /\ index[i].val[1].key = 0
          /\ index[i].val[2] = [key |-> 1, val |-> <<0, 1>>]

-----------------------------------------------------------------------------
(* C3: once main is past calculate_statistics on the empty corpus, it has  *)
(* stopped with an error of a guard on num_documents, not with the         *)
(* ZeroDivisionError of the division total_tokens / num_documents.         *)
C3_EmptyCorpusGuarded ==
    (documents = <<>> /\ builds >= 1 /\ pc # "build") =>
        (pc = "crashed" /\ error \notin {"none", "ZeroDivisionError"})

-----------------------------------------------------------------------------
(* C4: after build_index on a corpus with a document that lacks a title,   *)
(* the run is not aborted and every token of every document that has a     *)
(* title is indexed under that document's identifier.                      *)
C4_MissingTitleIsLocal ==
    (~pos_idx /\ builds >= 1 /\ ~AllTitled) =>
        /\ pc # "crashed"
        /\ \A d \in DocIds :
              "title" \in DOMAIN documents[d + 1] =>
                  \A p \in 1..Len(TitleTokens(d)) :
                      /\ DictHas(index, TitleTokens(d)[p])
                      /\ Count(d, DictGet(index, TitleTokens(d)[p])) >= 1

-----------------------------------------------------------------------------
(* The statistics main has computed.                                       *)

Stat(name) == DictGet(statistics, name)

\* the tokens of field f over the first n documents
RECURSIVE FieldTokens(_, _)
FieldTokens(f, n) ==
    IF n = 0 THEN 0
    ELSE FieldTokens(f, n - 1)
           + (IF f \in DOMAIN documents[n] THEN Len(tokenize(documents[n][f])) ELSE 0)

\* avg_tokens_per_doc * num_documents, as Python computes it
AvgTimesDocuments == float_mul(Stat("avg_tokens_per_doc"), Stat("num_documents"))

\* num_documents and total_tokens are the number of documents and of title
\* tokens
CountsRight ==
    /\ Stat("num_documents") = Len(documents)
    /\ Stat("num_documents") > 0
    /\ Stat("total_tokens") = FieldTokens("title", Len(documents))

-----------------------------------------------------------------------------
(* C5, as claimed: once calculate_statistics has returned,                 *)
(* avg_tokens_per_doc * num_documents == total_tokens.                     *)
C5_ProductExact ==
    StatisticsAssigned =>
        (CountsRight /\ AvgTimesDocuments = float_of_int(Stat("total_tokens")))

(* C5, amended: once calculate_statistics has returned,                    *)
(* avg_tokens_per_doc * num_documents is total_tokens or one of the two    *)
(* floats next to it; it is 0.0 when total_tokens is 0.                    *)
C5_ProductWithinRounding ==
    StatisticsAssigned =>
        /\ CountsRight
        /\ LET total == float_of_int(Stat("total_tokens"))
           IN  IF Stat("total_tokens") = 0 THEN AvgTimesDocuments = FloatZero
               ELSE AvgTimesDocuments \in {float_pred(total), total, float_succ(total)}

\* statistics whose product is not total_tokens
C5_Witness ==
    StatisticsAssigned /\ AvgTimesDocuments # float_of_int(Stat("total_tokens"))

-----------------------------------------------------------------------------
(* C6: once write_index_to_file has run, reading the file back with        *)
(* json.load gives the index the builder holds: the same keys of the same  *)
(* kind at every level, with the same values.                              *)
C6_RoundTrip ==
    (pc \in {"stem", "write_stats", "done"}) =>
        IF pos_idx
        THEN json_load(DictGet(files, PosFile)) = PositionalIndex_value(index)
        ELSE json_load(DictGet(files, NonPosFile)) = NonPositionalIndex_value(index)

-----------------------------------------------------------------------------
(* C8: once stem_index has run, the file it wrote holds exactly the stems  *)
(* of the index's tokens, each once; a stem maps to the postings of the    *)
(* last token of the index, in key order, with that stem; and the index is *)
(* still the one written to the index file.                                *)
C8_StemOverwrites ==
    (~pos_idx /\ pc \in {"write_stats", "done"}) =>
        LET stemmed == DictGet(files, StemFile).members
            last(s) == CHOOSE i \in 1..Len(index) :
                          /\ stem(index[i].key) = s
                          /\ \A k \in (i + 1)..Len(index) : stem(index[k].key) # s
        IN  /\ DictGet(files, StemFile).type = "object"
            /\ KeysUnique(stemmed)
            /\ DictKeys(stemmed) = {stem(index[i].key) : i \in 1..Len(index)}
            /\ \A j \in 1..Len(stemmed) :
                  stemmed[j].val = json_dump(PyIntList(index[last(stemmed[j].key)].val))
            /\ DictGet(files, NonPosFile) = json_dump(NonPositionalIndex_value(index))

\* two tokens of one stem with different postings
C8_Witness ==
    /\ ~pos_idx /\ pc \in {"write_stats", "done"}
    /\ \E i, j \in 1..Len(index) :
          /\ i < j
          /\ stem(index[i].key) = stem(index[j].key)
          /\ index[i].val # index[j].val

\* tokens of two stems
C8_WitnessTwoStems ==
    /\ ~pos_idx /\ pc \in {"write_stats", "done"}
    /\ \E i, j \in 1..Len(index) : stem(index[i].key) # stem(index[j].key)
    /\ Len(DictGet(files, StemFile).members) = 2

-----------------------------------------------------------------------------
(* C9: once calculate_statistics has returned, tokens_per_field has no     *)
(* entry for url and one entry for every other field of any document; the  *)
(* entry of a field is the number of tokens of that field's values over    *)
(* the documents that have it, and the entry of title is total_tokens.     *)
C9_TokensPerField ==
    StatisticsAssigned =>
        LET tokens_per_field == Stat("tokens_per_field")
        IN  /\ Len(documents) > 0 /\ AllTitled
            /\ ~DictHas(tokens_per_field, "url")
            /\ KeysUnique(tokens_per_field)
            /\ DictKeys(tokens_per_field)
                 = UNION {DOMAIN documents[i] : i \in 1..Len(documents)} \ {"url"}
            /\ \A i \in 1..Len(tokens_per_field) :
                  tokens_per_field[i].val
                    = FieldTokens(tokens_per_field[i].key, Len(documents))
            /\ DictGet(tokens_per_field, "title") = Stat("total_tokens")

\* two documents, one of them with a further field, and titles with tokens
C9_Witness ==
    /\ StatisticsAssigned
    /\ Len(documents) = 2
    /\ "content" \in DOMAIN documents[1] /\ "content" \notin DOMAIN documents[2]
    /\ DictGet(Stat("tokens_per_field"), "content") = 2
    /\ DictGet(Stat("tokens_per_field"), "title") = 3

-----------------------------------------------------------------------------
(* C10: after k calls of build_index with the corpus on one builder, none  *)
(* of which raised, every postings list of the non-positional index is k   *)
(* copies, one after the other, of the walk of the corpus for its token,   *)
(* and every position list of the positional index is k copies of the      *)
(* positions of its token in its document.                                 *)

\* k copies of a sequence, one after the other
RECURSIVE Copies(_, _)
Copies(xs, k) == IF k = 0 THEN <<>> ELSE Copies(xs, k - 1) \o xs

\* the identifiers of the first n documents, each once per occurrence of
\* the token in its title
RECURSIVE Walk(_, _)
Walk(token, n) ==
    IF n = 0 THEN <<>>
    ELSE Walk(token, n - 1) \o [k \in 1..Count(token, TitleTokens(n - 1)) |-> n - 1]

\* the positions of the token among the first n tokens, in increasing order
RECURSIVE PositionsOf(_, _, _)
PositionsOf(token, tokens, n) ==
    IF n = 0 THEN <<>>
    ELSE PositionsOf(token, tokens, n - 1)
           \o (IF tokens[n] = token THEN <<n - 1>> ELSE <<>>)

C10_BuildAppends ==
    (builds >= 1 /\ AllTitled) =>
        /\ error # "KeyError"
        /\ DictKeys(index) = CorpusTokens
        /\ \A i \in 1..Len(index) :
              IF pos_idx
              THEN \A j \in 1..Len(index[i].val) :
                      LET tokens == TitleTokens(index[i].val[j].key)
                      IN  index[i].val[j].val
                            = Copies(PositionsOf(index[i].key, tokens, Len(tokens)), builds)
              ELSE index[i].val = Copies(Walk(index[i].key, Len(documents)), builds)

\* the second call has appended the postings 0, 1 to the postings 0, 1
C10_Witness ==
    /\ ~pos_idx /\ builds = 2 /\ error = "none"
    /\ \E i \in 1..Len(index) : index[i].val = <<0, 1, 0, 1>>

\* the second call has appended the positions 0, 1 to the positions 0, 1
C10_WitnessPositional ==
    /\ pos_idx /\ builds = 2 /\ error = "none"
    /\ \E i \in 1..Len(index) : \E j \in 1..Len(index[i].val) :
          index[i].val[j].val = <<0, 1, 0, 1>>

====
